---- MODULE Spec2Model ----
(***************************************************************************)
(* Model of ntext.py: string diagrams (Ntext), their constructors (zcell,  *)
(* icell, ncell), the composability check, stitching, compose, adapt and   *)
(* the stateful Composition object.                                        *)
(*                                                                         *)
(* Python values are encoded as follows.                                   *)
(*   None                 [none |-> TRUE]                                  *)
(*   a str used as cells  [atom |-> "x"]                                   *)
(*   a dict               [dict |-> f], f a function on the keys           *)
(*   an int cell count    [int |-> n]                                      *)
(*   a list of cells      [list |-> <<...>>]                               *)
(*   a list of indices    a sequence of naturals                           *)
(*   a range object       [range |-> n]                                    *)
(* Names are one-character strings, and a name is used for cells of one    *)
(* dimension only: the inventory of a diagram is keyed by name alone.      *)
(* A call that can raise yields a record whose field err names the         *)
(* exception class ("" when the call returns normally).  A call that       *)
(* mutates an argument in place also yields the argument's value after the *)
(* call.                                                                   *)
(***************************************************************************)
EXTENDS Integers, Sequences, FiniteSets, TLC

VARIABLES self_ntext, initial, last, ret, ncomposed

vars == <<self_ntext, initial, last, ret, ncomposed>>

None == [none |-> TRUE]

Atom(name) == [atom |-> name]

Dict(f) == [dict |-> f]

PyInt(n) == [int |-> n]

PyList(s) == [list |-> s]

IsInt(v) == DOMAIN v = {"int"}

IsList(v) == DOMAIN v = {"list"}

IsDict(v) == DOMAIN v = {"dict"}

Raise(e) == [err |-> e]

Return(v) == [err |-> "", val |-> v]

\* list(range(lo, hi))
Range(lo, hi) == [k \in 1..(hi - lo) |-> lo + k - 1]

\* dict.items() restricted to the keys
Keys(d) == DOMAIN d.dict

Ntext(cells, dim, source, target, smap, tmap) ==
    [cells |-> cells, dim |-> dim, source |-> source, target |-> target,
     smap |-> smap, tmap |-> tmap]

NtextCell(source, target) == [source |-> source, target |-> target]

_ref(index, is_new) == [index |-> index, is_new |-> is_new]

zcell(name) == Ntext(Atom(name), 0, None, None, None, None)

icell(ntext) ==
    IF ntext = None THEN Raise("AttributeError")
    ELSE IF ntext.dim = 0
    THEN LET n == ntext.cells.atom
             smap == Dict(n :> <<0>>)
         IN  Return(Ntext(Dict(n :> PyInt(1)), 1, ntext, ntext, smap, smap))
    ELSE IF \E n \in Keys(ntext.cells) : IsInt(ntext.cells.dict[n])
    THEN Raise("TypeError")
    ELSE LET smap == Dict([n \in Keys(ntext.cells) |->
                              [range |-> Len(ntext.cells.dict[n].list)]])
         IN  Return(Ntext(ntext.cells, ntext.dim + 1, ntext, ntext, smap, smap))

compatible(source, target) ==
    IF source = None \/ target = None THEN Raise("AttributeError")
    ELSE LET r == source.source = target.source /\ source.target = target.target
         IN  IF r /\ source.dim # target.dim THEN Raise("AssertionError")
             ELSE Return(r)

\* The three loops of the dim > 0 branch.  Copying an int entry of
\* source.cells or target.cells iterates over an int; offset has a key for
\* every name of target.cells only, and the new cell's name is the first key
\* of the merged inventory.
NcellMerge(name, source, target) ==
    LET sc == source.cells.dict
        tc == target.cells.dict
    IN  IF \E n \in DOMAIN sc : IsInt(sc[n]) THEN Raise("TypeError")
        ELSE IF \E n \in DOMAIN tc : IsInt(tc[n]) THEN Raise("TypeError")
        ELSE IF name \notin DOMAIN tc THEN Raise("KeyError")
        ELSE IF \A n \in DOMAIN tc : Len(tc[n].list) = 0
                /\ DOMAIN sc \subseteq DOMAIN tc
        THEN LET smap == Dict([n \in DOMAIN sc |-> Range(0, Len(sc[n].list))])
                 tmap == Dict([n \in DOMAIN tc |-> <<>>])
                 ntext == [n \in DOMAIN tc |->
                             IF n \in DOMAIN sc THEN sc[n]
                             ELSE IF n = name
                             THEN PyList(<<NtextCell(smap, tmap)>>)
                             ELSE PyList(<<>>)]
             IN  Return(Ntext(Dict(ntext), source.dim + 1, source, target,
                              smap, tmap))
        ELSE IF Len(tc[name].list) = 0
                /\ \E n \in DOMAIN sc \ DOMAIN tc : TRUE THEN Raise("KeyError")
        ELSE Raise("AttributeError")

\* The dim = 0 branch: source.cells and target.cells are names.
NcellZero(name, source, target) ==
    LET sn == source.cells.atom
        tn == target.cells.atom
        shared == tn = sn
        ncsource == Dict(sn :> <<0>>)
        nctarget == Dict(tn :> (IF shared THEN <<1>> ELSE <<0>>))
        ntext == (sn :> PyInt(1)) @@ (name :> PyList(<<NtextCell(ncsource, nctarget)>>))
    IN  IF tn \in DOMAIN ntext /\ ~IsInt(ntext[tn]) THEN Raise("TypeError")
        ELSE Return(Ntext(Dict((tn :> PyInt(IF shared THEN 2 ELSE 1)) @@ ntext),
                          1, source, target, ncsource, nctarget))

_ncell(name, source, target) ==
    IF source.dim > 0 THEN NcellMerge(name, source, target)
    ELSE NcellZero(name, source, target)

\* ncell after compatible(source, target) returned c
Checked(name, source, target, c) ==
    IF c.err # "" THEN c
    ELSE IF ~c.val THEN Raise("NotCompatible")
    ELSE _ncell(name, source, target)

ncell(name, source, target) ==
    Checked(name, source, target, compatible(source, target))

\* The dim > 0 branch of get_face: r is the face of cell.source, whose index
\* map is composed with cell.smap.
FaceThrough(cell, r) ==
    IF r.err # "" THEN r
    ELSE IF cell.smap = None THEN Raise("AttributeError")
    ELSE IF Keys(cell.smap) = {}
    THEN [err |-> "", face |-> r.face, map |-> Dict(<<>>)]
    ELSE IF r.map = None THEN Raise("TypeError")
    ELSE IF ~(Keys(cell.smap) \subseteq Keys(r.map)) THEN Raise("KeyError")
    ELSE IF \E n \in Keys(cell.smap) : \E k \in 1..Len(r.map.dict[n]) :
               r.map.dict[n][k] >= Len(cell.smap.dict[n])
    THEN Raise("IndexError")
    ELSE [err |-> "", face |-> r.face,
          map |-> Dict([n \in Keys(cell.smap) |->
                     [k \in 1..Len(r.map.dict[n]) |->
                         cell.smap.dict[n][r.map.dict[n][k] + 1]]])]

RECURSIVE get_face(_, _, _)
get_face(cell, dim, side) ==
    IF cell = None THEN Raise("AttributeError")
    ELSE IF dim > 0 THEN FaceThrough(cell, get_face(cell.source, dim - 1, side))
    ELSE IF side < 0
    THEN [err |-> "", face |-> cell.source, map |-> cell.smap]
    ELSE [err |-> "", face |-> cell.target, map |-> cell.tmap]

\* The entries mapping[(name, k)] = _ref(t[i], False) written by composable;
\* a later position i overwrites an earlier one with the same k.
FaceRefs(smap, tmap) ==
    LET keys == UNION {{<<n, smap.dict[n][i]>> : i \in 1..Len(smap.dict[n])} :
                       n \in Keys(smap)}
        Last(n, k) == CHOOSE i \in 1..Len(smap.dict[n]) :
                        /\ smap.dict[n][i] = k
                        /\ \A j \in 1..Len(smap.dict[n]) :
                              smap.dict[n][j] = k => j <= i
    IN  [key \in keys |-> _ref(tmap.dict[key[1]][Last(key[1], key[2])], FALSE)]

\* composable once the faces are extracted: t is get_face(dst, dim, 1) and
\* s is get_face(src, dim, -1).  When the face maps are ill-formed in several
\* ways at once, the exception raised first depends on the iteration order
\* of smap; KeyError is reported before IndexError here.
ComposableFaces(t, s, mapping) ==
    IF t.err # "" THEN Raise(t.err)
    ELSE IF s.err # "" THEN Raise(s.err)
    ELSE IF mapping = None
    THEN [err |-> "", val |-> s.face = t.face, mapping |-> None]
    ELSE IF s.map = None THEN Raise("AttributeError")
    ELSE IF Keys(s.map) = {}
    THEN [err |-> "", val |-> s.face = t.face, mapping |-> mapping]
    ELSE IF t.map = None THEN Raise("TypeError")
    ELSE IF ~(Keys(s.map) \subseteq Keys(t.map)) THEN Raise("KeyError")
    ELSE IF \E n \in Keys(s.map) : Len(t.map.dict[n]) < Len(s.map.dict[n])
    THEN Raise("IndexError")
    ELSE [err |-> "", val |-> s.face = t.face,
          mapping |-> Dict(FaceRefs(s.map, t.map) @@ mapping.dict)]

composable(dst, src, dim, mapping) ==
    IF dst = None \/ src = None THEN Raise("AttributeError")
    ELSE IF dst.dim # src.dim
    THEN [err |-> "", val |-> FALSE, mapping |-> mapping]
    ELSE ComposableFaces(get_face(dst, dim, 1), get_face(src, dim, -1), mapping)

\* len(maps), or maps itself when it is an int
Length(maps) == IF IsInt(maps) THEN maps.int ELSE Len(maps.list)

\* NewPositions without the lookup in mapping: every position is new.
NewPositions_unmapped(src, mapping, name) ==
    0..(Length(src.dict[name]) - 1)

\* The positions i of src[name] with (name, i) not in mapping.
NewPositions(src, mapping, name) ==
    {i \in 0..(Length(src.dict[name]) - 1) : <<name, i>> \notin DOMAIN mapping.dict}

\* CLength that ignores what dst already holds.
CLength_zero(dst, name) == 0

\* clength before the walk: dst.get(name, 0), or len(dst.get(name) or []).
CLength(dst, name) ==
    IF name \in Keys(dst) THEN Length(dst.dict[name]) ELSE 0

\* The index _ref(clength, True) given to the new position i: clength has
\* been incremented once for every new position before i.
FreshIndex(dst, src, mapping, name, i) ==
    CLength(dst, name)
      + Cardinality({j \in NewPositions(src, mapping, name) : j < i})

\* The TypeError paths (a name that is a count on one side and a list on
\* the other) report dst and mapping as they were before the call.
pre_stitch(dst, src, mapping) ==
    IF ~IsDict(src) THEN [err |-> "AttributeError", dst |-> dst, mapping |-> mapping]
    ELSE IF \E n \in Keys(src) \cap Keys(dst) :
               \/ /\ IsInt(src.dict[n]) /\ ~IsInt(dst.dict[n])
                  /\ NewPositions(src, mapping, n) # {}
               \/ /\ ~IsInt(src.dict[n]) /\ IsInt(dst.dict[n])
                  /\ dst.dict[n].int # 0
    THEN [err |-> "TypeError", dst |-> dst, mapping |-> mapping]
    ELSE LET new(n) == NewPositions(src, mapping, n)
             old(n) == IF n \in Keys(dst) /\ IsList(dst.dict[n])
                       THEN dst.dict[n].list ELSE <<>>
             grown == [n \in Keys(src) |->
                         IF IsInt(src.dict[n])
                         THEN IF n \in Keys(dst) /\ ~IsInt(dst.dict[n])
                              THEN dst.dict[n]
                              ELSE PyInt(CLength(dst, n) + Cardinality(new(n)))
                         ELSE PyList(old(n) \o [k \in 1..Cardinality(new(n)) |-> None])]
             refs == [key \in UNION {{<<n, i>> : i \in new(n)} : n \in Keys(src)} |->
                         _ref(FreshIndex(dst, src, mapping, key[1], key[2]), TRUE)]
         IN  [err |-> "", dst |-> Dict(grown @@ dst.dict),
              mapping |-> Dict(refs @@ mapping.dict)]

\* Translate that copies the indices instead of looking them up.
Translate_copy(ct, mapping) == ct

\* t[n] = [mapping[(n, k)].index for k in p] for every (n, p) of a cell map
Translate(ct, mapping) ==
    Dict([n \in Keys(ct) |->
            [k \in 1..Len(ct.dict[n]) |-> mapping.dict[<<n, ct.dict[n][k]>>].index]])

Translatable(ct, mapping) ==
    \A n \in Keys(ct) : \A k \in 1..Len(ct.dict[n]) :
        <<n, ct.dict[n][k]>> \in DOMAIN mapping.dict

\* The cell stitch writes into a new slot: the cell of src with its source and
\* target maps translated through the mapping m.
Stitched(cell, m) ==
    NtextCell(Translate(cell.source, m), Translate(cell.target, m))

\* The main pass of stitch: p is what pre_stitch returned.  On the raising
\* paths dst is reported as pre_stitch left it; the slots filled before the
\* exception are not tracked.
MainPass(p, src) ==
    IF p.err # "" THEN p
    ELSE
    LET m == p.mapping
        lists == {n \in Keys(src) : IsList(src.dict[n])}
        new(n) == {i \in 0..(Len(src.dict[n].list) - 1) : m.dict[<<n, i>>].is_new}
        slot(n, i) == m.dict[<<n, i>>].index
        filled == [n \in lists |->
                     PyList([j \in 1..Len(p.dst.dict[n].list) |->
                        IF \E i \in new(n) : slot(n, i) = j - 1
                        THEN Stitched(src.dict[n].list[
                                 (CHOOSE i \in new(n) : slot(n, i) = j - 1) + 1], m)
                        ELSE p.dst.dict[n].list[j]])]
    IN  IF \E n \in lists : \E i \in new(n) :
               slot(n, i) >= Len(p.dst.dict[n].list)
        THEN [err |-> "IndexError", dst |-> p.dst, mapping |-> m]
        ELSE IF \E n \in lists : \E i \in new(n) :
                   \/ p.dst.dict[n].list[slot(n, i) + 1] # None
                   \/ \E k \in new(n) : k < i /\ slot(n, k) = slot(n, i)
        THEN [err |-> "AssertionError", dst |-> p.dst, mapping |-> m]
        ELSE IF \E n \in lists : \E i \in new(n) :
                   src.dict[n].list[i + 1] = None
        THEN [err |-> "AttributeError", dst |-> p.dst, mapping |-> m]
        ELSE IF \E n \in lists : \E i \in new(n) :
                   \/ ~Translatable(src.dict[n].list[i + 1].source, m)
                   \/ ~Translatable(src.dict[n].list[i + 1].target, m)
        THEN [err |-> "KeyError", dst |-> p.dst, mapping |-> m]
        ELSE [err |-> "", dst |-> Dict(filled @@ p.dst.dict), mapping |-> m]

stitch(dst, src, mapping) == MainPass(pre_stitch(dst, src, mapping), src)

\* The loop "for n, p in sm" of the dim > 0 branch iterates over the keys of
\* the boundary map; every name of the model is a one-character string, which
\* does not unpack into (n, p).
BoundaryLoop(sm) ==
    IF sm = None THEN "TypeError"
    ELSE IF Keys(sm) = {} THEN ""
    ELSE "ValueError"

\* The dim == 0 branch of compose: d1 is dst after stitch, st what stitch
\* returned.
Vertical(d1, src, st) ==
    IF src.tmap = None THEN [err |-> "AttributeError", dst |-> d1]
    ELSE IF ~Translatable(src.tmap, st.mapping)
    THEN [err |-> "KeyError", dst |-> d1]
    ELSE [err |-> "", ok |-> TRUE,
          ntext |-> Ntext(st.dst, d1.dim, d1.source, src.target,
                          d1.smap, Translate(src.tmap, st.mapping)),
          dst |-> d1, mapping |-> st.mapping]

\* The second pass (k = 1) of the loop of the dim > 0 branch: r1 is what
\* compose returned for the targets.  smap and tmap are not bound when the
\* branch reaches the return statement.
TargetPass(d2, src, r1) ==
    IF r1.err # "" THEN [err |-> r1.err, dst |-> [d2 EXCEPT !.target = r1.dst]]
    ELSE IF ~r1.ok
    THEN [err |-> "AssertionError", dst |-> [d2 EXCEPT !.target = r1.dst]]
    ELSE IF BoundaryLoop(src.tmap) # ""
    THEN [err |-> BoundaryLoop(src.tmap), dst |-> [d2 EXCEPT !.target = r1.dst]]
    ELSE [err |-> "UnboundLocalError", dst |-> [d2 EXCEPT !.target = r1.dst]]

\* compose yields err, ok and ntext (the returned pair), dst (the value of
\* the dst argument after the call: stitch works on dst.cells itself, and
\* the recursive calls on dst.source and dst.target) and the mapping.
RECURSIVE compose(_, _, _, _)

\* The first pass (k = 0) of the loop of the dim > 0 branch: r0 is what
\* compose returned for the sources.
SourcePass(d1, src, dim, r0) ==
    IF r0.err # "" THEN [err |-> r0.err, dst |-> [d1 EXCEPT !.source = r0.dst]]
    ELSE IF ~r0.ok
    THEN [err |-> "AssertionError", dst |-> [d1 EXCEPT !.source = r0.dst]]
    ELSE IF BoundaryLoop(src.smap) # ""
    THEN [err |-> BoundaryLoop(src.smap), dst |-> [d1 EXCEPT !.source = r0.dst]]
    ELSE TargetPass([d1 EXCEPT !.source = r0.dst], src,
                    compose(d1.target, src.target, dim - 1, Dict(<<>>)))

\* compose after stitch(dst.cells, src.cells, mapping) returned st
AfterStitch(dst, src, dim, st) ==
    IF st.err # "" THEN [err |-> st.err, dst |-> [dst EXCEPT !.cells = st.dst]]
    ELSE IF dim > 0
    THEN SourcePass([dst EXCEPT !.cells = st.dst], src, dim,
                    compose(dst.source, src.source, dim - 1, Dict(<<>>)))
    ELSE Vertical([dst EXCEPT !.cells = st.dst], src, st)

\* compose after composable(dst, src, dim, mapping) returned c
AfterComposable(dst, src, dim, c) ==
    IF c.err # "" THEN [err |-> c.err, dst |-> dst]
    ELSE IF ~c.val
    THEN [err |-> "", ok |-> FALSE, ntext |-> None, dst |-> dst,
          mapping |-> c.mapping]
    ELSE AfterStitch(dst, src, dim, stitch(dst.cells, src.cells, c.mapping))

compose(dst, src, dim, mapping) ==
    AfterComposable(dst, src, dim,
        composable(dst, src, dim, IF mapping = None THEN Dict(<<>>) ELSE mapping))

\* Ntext.composable
Ntext_composable(self, ntext, n) == composable(self, ntext, n, None)

\* Composition.__init__: the value of self._ntext
Composition_init(ntext) ==
    IF ntext = None THEN Raise("AttributeError") ELSE icell(ntext.source)

\* Composition.ntext (a deep copy)
Composition_ntext(self) == self

\* Composition.compose after compose returned r, when self._ntext is
\* assigned before ok is tested.
Commit_early(r) ==
    IF r.err # "" THEN [err |-> r.err, self |-> r.dst]
    ELSE IF ~r.ok THEN [err |-> "NotComposable", self |-> r.ntext]
    ELSE [err |-> "", self |-> r.ntext, mapping |-> r.mapping]

\* Composition.compose after compose returned r: err and the value of
\* self._ntext after the call.
Commit(r) ==
    IF r.err # "" THEN [err |-> r.err, self |-> r.dst]
    ELSE IF ~r.ok THEN [err |-> "NotComposable", self |-> r.dst]
    ELSE [err |-> "", self |-> r.ntext, mapping |-> r.mapping]

\* Composition.compose
Composition_compose(self, factor, n) == Commit(compose(self, factor, n, None))

\* q is a list of positions of seq (0-based)
Select(seq, q) == [k \in 1..Len(q) |-> seq[q[k] + 1]]

\* permute subscripts ntext and mapping by the names of perm; ntext[name]
\* with a str name is defined for a dict only (not for an Ntext tuple, not
\* for None).
permute(ntext, mapping, perm) ==
    IF Keys(perm) = {} THEN [err |-> "", ntext |-> ntext, mapping |-> mapping]
    ELSE IF ~IsDict(ntext) THEN [err |-> "TypeError", ntext |-> ntext, mapping |-> mapping]
    ELSE IF ~(Keys(perm) \subseteq Keys(ntext))
    THEN [err |-> "KeyError", ntext |-> ntext, mapping |-> mapping]
    ELSE IF \E n \in Keys(perm) : ~IsList(ntext.dict[n])
    THEN [err |-> "TypeError", ntext |-> ntext, mapping |-> mapping]
    ELSE IF \E n \in Keys(perm) : \E k \in 1..Len(perm.dict[n]) :
               perm.dict[n][k] >= Len(ntext.dict[n].list)
    THEN [err |-> "IndexError", ntext |-> ntext, mapping |-> mapping]
    ELSE IF ~IsDict(mapping) THEN [err |-> "TypeError", ntext |-> ntext, mapping |-> mapping]
    ELSE IF ~(Keys(perm) \subseteq Keys(mapping))
    THEN [err |-> "KeyError", ntext |-> ntext, mapping |-> mapping]
    ELSE IF \E n \in Keys(perm) : \E k \in 1..Len(perm.dict[n]) :
               perm.dict[n][k] >= Len(mapping.dict[n])
    THEN [err |-> "IndexError", ntext |-> ntext, mapping |-> mapping]
    ELSE [err |-> "",
          ntext |-> Dict([n \in Keys(perm) |->
                            PyList(Select(ntext.dict[n].list, perm.dict[n]))]
                         @@ ntext.dict),
          mapping |-> Dict([n \in Keys(perm) |->
                              Select(mapping.dict[n], perm.dict[n])]
                           @@ mapping.dict)]

\* adapt yields err and cell, the value of the cell argument after the call.
RECURSIVE adapt(_, _, _)

\* the dim > 0 branch after adapt(cell.target, dim, perm) returned b
AdaptedTarget(c1, b) ==
    [err |-> b.err, cell |-> [c1 EXCEPT !.target = b.cell]]

\* the dim > 0 branch after adapt(cell.source, dim, perm) returned a
AdaptedSource(cell, dim, perm, a) ==
    IF a.err # "" THEN [err |-> a.err, cell |-> [cell EXCEPT !.source = a.cell]]
    ELSE AdaptedTarget([cell EXCEPT !.source = a.cell],
                       adapt(cell.target, dim - 1, perm))

\* the dim == 0 branch after permute(cell.source, cell.smap, perm) returned r
Permuted(cell, r) ==
    [err |-> r.err, cell |-> [cell EXCEPT !.source = r.ntext, !.smap = r.mapping]]

adapt(cell, dim, perm) ==
    IF cell = None THEN [err |-> "AttributeError", cell |-> cell]
    ELSE IF dim > 0
    THEN AdaptedSource(cell, dim, perm, adapt(cell.source, dim - 1, perm))
    ELSE Permuted(cell, permute(cell.source, cell.smap, perm))

(***************************************************************************)
(* The client: the diagrams it builds and the calls it makes.              *)
(***************************************************************************)

\* the number of successful Composition.compose calls of a run
MaxCompose == 2

\* the largest n passed to compose, composable and adapt
MaxDim == 1

ZNames == {"x", "y"}

CellNames == {"f", "g"}

NewNames == CellNames \cup {"a"}

Zcells == {zcell(n) : n \in ZNames}

\* the 1-cells name: s -> t built by ncell on 0-cells
Generators == {ncell(name, s, t).val : name \in CellNames, s \in Zcells, t \in Zcells}

Identities == {icell(z).val : z \in Zcells}

\* f ; f for f: x -> x, composed by a Composition
Path ==
    LET f == ncell("f", zcell("x"), zcell("x")).val
        c0 == Composition_init(f).val
        c1 == Composition_compose(c0, f, 0).self
    IN  Composition_compose(c1, f, 0).self

\* A 2-dimensional diagram written out with the Ntext constructor: source
\* and target are Path, the inventory is Path's, smap and tmap list every
\* position of every name.
TwoCell ==
    LET full == Dict([n \in Keys(Path.cells) |->
                        Range(0, Length(Path.cells.dict[n]))])
    IN  Ntext(Path.cells, 2, Path, Path, full, full)

Pool == Zcells \cup Generators \cup Identities \cup {Path, TwoCell}

\* the names a diagram uses
Used(d) == IF d.dim = 0 THEN {d.cells.atom} ELSE Keys(d.cells)

Orderings(n) ==
    {q \in [1..n -> 0..(n - 1)] : \A i, j \in 1..n : q[i] = q[j] => i = j}

\* The face adapt(c, n, perm) reaches: the source of c, n levels down.
RECURSIVE NSource(_, _)
NSource(c, n) ==
    IF c = None THEN None
    ELSE IF n > 0 THEN NSource(c.source, n - 1)
    ELSE c.source

\* the per-name permutations of the cell sequences of a face
Perms(face) ==
    IF face = None \/ ~IsDict(face.cells) THEN {Dict(<<>>)}
    ELSE LET lists == {n \in Keys(face.cells) : IsList(face.cells.dict[n])}
             len(n) == Len(face.cells.dict[n].list)
             all == UNION {Orderings(len(n)) : n \in lists}
         IN  UNION {{Dict(q) : q \in {q \in [names -> all] :
                                        \A n \in names : q[n] \in Orderings(len(n))}} :
                    names \in SUBSET lists}

Init ==
    /\ self_ntext = None
    /\ initial = None
    /\ last = None
    /\ ret = [op |-> "none"]
    /\ ncomposed = 0

\* Composition(d), r what __init__ computed
Constructed(d, r) ==
    /\ ret' = [op |-> "Composition", arg |-> d, err |-> r.err]
    /\ IF r.err = ""
       THEN self_ntext' = r.val /\ initial' = d
       ELSE UNCHANGED <<self_ntext, initial>>
    /\ UNCHANGED <<last, ncomposed>>

\* Composition(d)
New(d) ==
    /\ self_ntext = None
    /\ Constructed(d, Composition_init(d))

\* self.compose(factor, n), r what the call did
Composed(factor, n, r) ==
    /\ self_ntext' = r.self
    /\ ret' = [op |-> "compose", factor |-> factor, n |-> n,
               err |-> r.err, before |-> self_ntext, prev |-> last]
    /\ IF r.err = ""
       THEN /\ last' = [factor |-> factor, mapping |-> r.mapping]
            /\ ncomposed' = ncomposed + 1
       ELSE UNCHANGED <<last, ncomposed>>
    /\ UNCHANGED initial

\* self.compose(factor, n); the factor may be a snapshot self.ntext()
Compose(factor, n) ==
    /\ self_ntext # None
    /\ ncomposed < MaxCompose
    /\ Composed(factor, n, Composition_compose(self_ntext, factor, n))

\* The calls below take values of the pool and leave the composer alone;
\* they do not depend on one another, and a run makes one of them.

\* ncell(name, source, target) with an unused name
CallNcell(name, source, target) ==
    /\ self_ntext = None
    /\ ret.op = "none"
    /\ name \notin Used(source) \cup Used(target)
    /\ ret' = [op |-> "ncell", name |-> name, source |-> source,
               target |-> target, compatible |-> compatible(source, target),
               r |-> ncell(name, source, target)]
    /\ UNCHANGED <<self_ntext, initial, last, ncomposed>>

\* compose(dst, src, dim, None) and dst.composable(src, dim)
CallCompose(dst, src, dim) ==
    /\ self_ntext = None
    /\ ret.op = "none"
    /\ ret' = [op |-> "compose_fn", dst |-> dst, src |-> src, dim |-> dim,
               composable |-> Ntext_composable(dst, src, dim),
               r |-> compose(dst, src, dim, None)]
    /\ UNCHANGED <<self_ntext, initial, last, ncomposed>>

\* c.adapt(n, perm)
CallAdapt(c, n, perm) ==
    /\ self_ntext = None
    /\ ret.op = "none"
    /\ ret' = [op |-> "adapt", cell |-> c, n |-> n, perm |-> perm,
               r |-> adapt(c, n, perm)]
    /\ UNCHANGED <<self_ntext, initial, last, ncomposed>>

Next ==
    \/ \E d \in Pool : New(d)
    \/ \E factor \in Pool \cup {Composition_ntext(self_ntext)} :
          \E n \in 0..MaxDim : Compose(factor, n)
    \/ \E name \in NewNames : \E s \in Pool : \E t \in Pool : CallNcell(name, s, t)
    \/ \E dst \in Pool : \E src \in Pool : \E dim \in 0..MaxDim :
          CallCompose(dst, src, dim)
    \/ \E c \in Pool : \E n \in 0..MaxDim : \E perm \in Perms(NSource(c, n)) :
          CallAdapt(c, n, perm)

Spec == Init /\ [][Next]_vars
(***************************************************************************)
(* The claims.                                                             *)
(***************************************************************************)

\* the faces compared by compose(self, factor, n)
Differ(t, s) == t.err = "" /\ s.err = "" /\ s.face # t.face

FacesDiffer(dst, src, n) == Differ(get_face(dst, n, 1), get_face(src, n, -1))

\* C1: a compose call whose factor has the composer's dimension and whose
\* source face at n differs from the composer's target face at n fails with
\* NotComposable and with no other error.
C1_NotComposableOnly ==
    (/\ ret.op = "compose"
     /\ ret.factor.dim = ret.before.dim
     /\ FacesDiffer(ret.before, ret.factor, ret.n))
    => ret.err = "NotComposable"

C3_ComposeIffComposable ==
    ret.op = "compose_fn"
    => ((ret.r.err = "" /\ ret.r.ok)
        <=> (ret.composable.err = "" /\ ret.composable.val))

\* C4: for a 1-cell f built by ncell on 0-cells (x = y included),
\* Composition(f) followed by compose(f, 0) succeeds and the snapshot is f.
C4_IdentityLaw ==
    (/\ ret.op = "compose"
     /\ ret.n = 0
     /\ initial \in Generators
     /\ ret.factor = initial
     /\ ret.before = Composition_init(initial).val)
    => (ret.err = "" /\ Composition_ntext(self_ntext) = initial)

\* the law applied to f: x -> x
C4_Witness ==
    /\ ret.op = "compose"
    /\ ret.n = 0
    /\ initial = ncell("f", zcell("x"), zcell("x")).val
    /\ ret.factor = initial
    /\ ret.before = Composition_init(initial).val
    /\ ret.err = ""

\* C5: ncell with an unused name fails only with NotCompatible, exactly when
\* compatible is false; when compatible is true it returns a diagram of
\* dimension source.dim + 1 whose source and target are the arguments.
C5_NcellContract ==
    ret.op = "ncell"
    => LET c == ret.compatible.err = "" /\ ret.compatible.val
       IN  /\ ret.r.err \in {"", "NotCompatible"}
           /\ ret.r.err = "NotCompatible" <=> ~c
           /\ c => /\ ret.r.val.dim = ret.source.dim + 1
                   /\ ret.r.val.source = ret.source
                   /\ ret.r.val.target = ret.target

\* the positions of every name of d, as the identity on d lists them
AllPositions(d) ==
    IF d.dim = 0 THEN Dict(d.cells.atom :> <<0>>)
    ELSE Dict([n \in Keys(d.cells) |->
                 [k \in 1..(IF IsInt(d.cells.dict[n]) THEN d.cells.dict[n].int
                            ELSE Len(d.cells.dict[n].list)) |-> k - 1]])

\* the identity on d: dimension d.dim + 1, source = target = d, smap = tmap
\* listing every position of every name of d
IsIdentityOn(c, d) ==
    /\ c.dim = d.dim + 1
    /\ c.source = d
    /\ c.target = d
    /\ c.smap = c.tmap
    /\ c.smap = AllPositions(d)

\* C6: Composition(d) never fails, for d of any dimension, and its snapshot
\* is the identity on d.source.
C6_ConstructNeverFails ==
    ret.op = "Composition"
    => /\ ret.err = ""
       /\ Composition_ntext(self_ntext).dim = ret.arg.dim
       /\ IsIdentityOn(Composition_ntext(self_ntext), ret.arg.source)

\* C7: a successful compose(dst, src, dim) leaves dst as it was.
C7_ComposeKeepsDst ==
    (ret.op = "compose_fn" /\ ret.r.err = "" /\ ret.r.ok)
    => ret.r.dst = ret.dst

\* the inverse of a per-name permutation
Inverse(perm) ==
    Dict([n \in Keys(perm) |->
            [k \in 1..Len(perm.dict[n]) |->
                (CHOOSE j \in 1..Len(perm.dict[n]) : perm.dict[n][j] = k - 1) - 1]])

\* The lists of cells of a face and the paired index map, reordered by perm.
Reordered(before, after, smapBefore, smapAfter, perm) ==
    \A n \in Keys(perm) :
        /\ after.cells.dict[n].list = Select(before.cells.dict[n].list, perm.dict[n])
        /\ smapAfter.dict[n] = Select(smapBefore.dict[n], perm.dict[n])

\* the diagram whose source and smap adapt(c, n, perm) permutes
RECURSIVE NHolder(_, _)
NHolder(c, n) == IF n > 0 THEN NHolder(c.source, n - 1) ELSE c

\* C8: for a diagram of dimension >= 1 and n within its depth, adapt with a
\* per-name permutation of the n-source completes and reorders the source
\* inventory and the paired smap, and adapt with the inverse permutation
\* restores the diagram.
C8_AdaptInvolution ==
    (ret.op = "adapt" /\ ret.cell.dim >= 1 /\ ret.n < ret.cell.dim)
    => /\ ret.r.err = ""
       /\ Reordered(NSource(ret.cell, ret.n), NSource(ret.r.cell, ret.n),
                    NHolder(ret.cell, ret.n).smap, NHolder(ret.r.cell, ret.n).smap,
                    ret.perm)
       /\ adapt(ret.r.cell, ret.n, Inverse(ret.perm))
             = [err |-> "", cell |-> ret.cell]

\* tmap is the factor's tmap with every index looked up in the mapping
IsTranslated(tmap, ftmap, mapping) ==
    /\ Keys(tmap) = Keys(ftmap)
    /\ \A n \in Keys(ftmap) :
          /\ Len(tmap.dict[n]) = Len(ftmap.dict[n])
          /\ \A k \in 1..Len(ftmap.dict[n]) :
                tmap.dict[n][k] = mapping.dict[<<n, ftmap.dict[n][k]>>].index

Count(cells, n) ==
    IF n \notin Keys(cells) THEN 0
    ELSE IF IsInt(cells.dict[n]) THEN cells.dict[n].int
    ELSE Len(cells.dict[n].list)

\* every index of an index map is a position of its name in the inventory
InRange(map, cells) ==
    \A n \in Keys(map) :
        \A k \in 1..Len(map.dict[n]) :
            map.dict[n][k] >= 0 /\ map.dict[n][k] < Count(cells, n)

IndicesInRange(d) ==
    /\ InRange(d.smap, d.cells)
    /\ InRange(d.tmap, d.cells)
    /\ \A n \in Keys(d.cells) :
          IsList(d.cells.dict[n])
          => \A j \in 1..Len(d.cells.dict[n].list) :
                LET c == d.cells.dict[n].list[j]
                IN  /\ c # None
                    /\ InRange(c.source, d.cells)
                    /\ InRange(c.target, d.cells)

\* The cells of the factor on the glued face keep an index of the composer;
\* every other cell gets an index the composer did not use, and no two of
\* them the same one.
FreshIndices(before, factor, mapping) ==
    \A n \in Keys(factor.cells) :
        \A i \in 0..(Count(factor.cells, n) - 1) :
            LET r == mapping.dict[<<n, i>>]
                glued == /\ n \in Keys(factor.smap)
                         /\ \E k \in 1..Len(factor.smap.dict[n]) :
                               factor.smap.dict[n][k] = i
            IN  IF glued THEN ~r.is_new
                ELSE /\ r.is_new
                     /\ r.index >= Count(before.cells, n)
                     /\ \A j \in 0..(Count(factor.cells, n) - 1) :
                           (j # i /\ mapping.dict[<<n, j>>].is_new)
                           => mapping.dict[<<n, j>>].index # r.index

\* C10: in a composer built from a diagram made by ncell on 0-cells, after
\* any successful compose(factor, 0) calls every index of smap, tmap and of
\* the cell records is a position of its name in the inventory, no
\* placeholder is left, the stitch assertion never fails and every cell of
\* the factor off the glued face has a fresh index.
C10_IndicesInRange ==
    (self_ntext # None /\ initial \in Generators)
    => /\ IndicesInRange(Composition_ntext(self_ntext))
       /\ ret.op = "compose" => ret.err # "AssertionError"
       /\ (ret.op = "compose" /\ ret.err = "")
          => FreshIndices(ret.before, ret.factor, last.mapping)

\* a factor with two new cells of one name merged into a composite
C10_Witness ==
    /\ initial \in Generators
    /\ ncomposed = 2
    /\ ret.op = "compose"
    /\ ret.err = ""
    /\ ret.factor = Path
    /\ \E n \in Keys(ret.before.cells) : Count(ret.before.cells, n) >= 2
====
